---- MODULE Spec2Model ----
(***************************************************************************)
(* A model of the throughput counter of src/src/tp.rs: the unsynchronized  *)
(* Throughput<T> counter, and its two lock-guarded wrappers.               *)
(*                                                                         *)
(* u32 and u64 values exceed the range of TLC's integers, so they are kept *)
(* at full width as little-endian sequences of base-256 digits without     *)
(* trailing zeros (<<>> is 0, <<255,255,255,255>> is 2^32 - 1).            *)
(* An f64 is modelled by the real number it approximates: a rate is kept   *)
(* as the unevaluated quotient of its numerator and its denominator.       *)
(***************************************************************************)
EXTENDS Integers, Sequences, FiniteSets, TLC

VARIABLES
    overflow_checks,  \* build profile: TRUE in a debug build, FALSE in a release build
    nowCount,         \* number of T::now() calls made so far; the n-th call yields instant n
    tp,               \* the unsynchronized counter: [initial_time, sum]
    pc,               \* "running", or "panicked" once a call of the sequential program has panicked
    window,           \* history: the values passed to the reports that completed since the last reset
    discarded,        \* history: the sum that the latest reset of tp threw away
    last,             \* history: the last call made on tp, its input, its result and the state before it
    w,                \* the wrapper shared by the threads: its lock and its tp_unsynchronized
    th,               \* per thread (or task): where it is in its current wrapper call, and the call's data
    lin,              \* history: an unsynchronized counter that takes each wrapper call in one step
    acct,             \* history: totals of the values reported and of the sums consumed by returned calls
    pair              \* a blocking and an async wrapper driven side by side by one caller

seqVars == <<tp, pc, window, discarded, last>>
wrapVars == <<w, th, lin, acct>>
vars == <<overflow_checks, nowCount, tp, pc, window, discarded, last, w, th, lin, acct, pair>>

----------------------------------------------------------------------------
(* Bounds of the model *)

MaxReports == 3   \* reports per measurement window
MaxNow == 3       \* calls of T::now() in one run of the sequential program
NThreads == 3     \* threads (tasks) sharing one wrapper
MaxCalls == 3     \* wrapper calls made by all threads together
MaxPairCalls == 4 \* calls made on the pair of wrappers
NProgress == 2    \* threads that keep calling the wrapper without end

----------------------------------------------------------------------------
(* Unbounded naturals as digit sequences *)

Base == 256

RECURSIVE NatOfInt(_)
NatOfInt(n) ==
    IF n = 0 THEN <<>> ELSE <<n % Base>> \o NatOfInt(n \div Base)

RECURSIVE NatNorm(_)
NatNorm(a) ==
    IF a = <<>> THEN <<>>
    ELSE IF a[Len(a)] = 0 THEN NatNorm(SubSeq(a, 1, Len(a) - 1))
    ELSE a

RECURSIVE NatAddC(_, _, _)
NatAddC(a, b, c) ==
    IF a = <<>> /\ b = <<>> THEN (IF c = 0 THEN <<>> ELSE <<c>>)
    ELSE LET x == IF a = <<>> THEN 0 ELSE Head(a)
             y == IF b = <<>> THEN 0 ELSE Head(b)
             ra == IF a = <<>> THEN <<>> ELSE Tail(a)
             rb == IF b = <<>> THEN <<>> ELSE Tail(b)
             s == x + y + c
         IN  <<s % Base>> \o NatAddC(ra, rb, s \div Base)

NatAdd(a, b) == NatAddC(a, b, 0)

RECURSIVE NatMulDigit(_, _, _)
NatMulDigit(a, d, c) ==
    IF a = <<>> THEN NatOfInt(c)
    ELSE LET p == Head(a) * d + c
         IN  <<p % Base>> \o NatMulDigit(Tail(a), d, p \div Base)

NatShift(a) == IF a = <<>> THEN <<>> ELSE <<0>> \o a

RECURSIVE NatMul(_, _)
NatMul(a, b) ==
    IF b = <<>> THEN <<>>
    ELSE NatAdd(NatNorm(NatMulDigit(a, Head(b), 0)), NatShift(NatMul(a, Tail(b))))

RECURSIVE NatLess(_, _)
NatLess(a, b) ==
    IF Len(a) # Len(b) THEN Len(a) < Len(b)
    ELSE IF a = <<>> THEN FALSE
    ELSE IF a[Len(a)] # b[Len(b)] THEN a[Len(a)] < b[Len(b)]
    ELSE NatLess(NatNorm(SubSeq(a, 1, Len(a) - 1)), NatNorm(SubSeq(b, 1, Len(b) - 1)))

RECURSIVE NatSum(_)
NatSum(seq) == IF seq = <<>> THEN <<>> ELSE NatAdd(Head(seq), NatSum(Tail(seq)))

----------------------------------------------------------------------------
(* u32, u64 and Duration *)

U32Bytes == 4
U32Max == <<255, 255, 255, 255>>            \* 2^32 - 1
Pow2_32 == <<0, 0, 0, 0, 1>>                \* 2^32: the smallest u64 that does not fit a u32

\* `x as u32` for an unsigned x: keeps the low 32 bits
AsU32(x) == NatNorm(SubSeq(x, 1, IF Len(x) < U32Bytes THEN Len(x) ELSE U32Bytes))

FitsU32(x) == Len(x) <= U32Bytes

NanosPerSec == 1000000000
NanosPerMilli == 1000000

\* Duration::new(secs, nanos) with nanos < 1e9
Duration(secs, nanos) == [secs |-> secs, nanos |-> nanos]
as_secs(d) == d.secs
subsec_micros(d) == d.nanos \div 1000
subsec_millis(d) == d.nanos \div NanosPerMilli

\* the answers of T::elapsed() that the model draws
ElapsedSecs == {<<>>, NatOfInt(1), NatOfInt(10), Pow2_32, NatAdd(Pow2_32, NatOfInt(10))}
ElapsedNanos == {0, 999999, 1000000, 500000000}
Elapsed == {Duration(s, n) : s \in ElapsedSecs, n \in ElapsedNanos}

\* the arguments of report() that the model draws
Values == {<<>>, NatOfInt(1), U32Max}

----------------------------------------------------------------------------
(* Option<f64> *)

None == <<"None">>
Some(x) == <<"Some", x>>
is_some(o) == o[1] = "Some"
unwrap(o) == o[2]

----------------------------------------------------------------------------
(* Throughput<T> *)

\* Throughput::new() given the instant T::now() returns
new(now) == [initial_time |-> now, sum |-> <<>>]

report_RestartsWindow(self, value, checks) ==
    LET s == NatAdd(self.sum, value)
    IN  IF FitsU32(s) THEN [self |-> [self EXCEPT !.sum = s, !.initial_time = 0], panic |-> FALSE]
        ELSE IF checks THEN [self |-> self, panic |-> TRUE]
        ELSE [self |-> [self EXCEPT !.sum = AsU32(s), !.initial_time = 0], panic |-> FALSE]

\* Throughput::report: self.sum += value on a u32. With overflow checks (debug)
\* an overflowing add panics before the store; without (release) it wraps.
report(self, value, checks) ==
    LET s == NatAdd(self.sum, value)
    IN  IF FitsU32(s) THEN [self |-> [self EXCEPT !.sum = s], panic |-> FALSE]
        ELSE IF checks THEN [self |-> self, panic |-> TRUE]
        ELSE [self |-> [self EXCEPT !.sum = AsU32(s)], panic |-> FALSE]

reset_KeepsSum(self, now) == [self EXCEPT !.initial_time = now]

\* Throughput::reset given the instant T::now() returns
reset(self, now) == [self EXCEPT !.initial_time = now, !.sum = <<>>]

\* f64::from(elapsed.as_secs() as u32) + f64::from(elapsed.subsec_millis()) / 1000.0,
\* kept as its two exact summands
Denominator(elapsed) ==
    [secs |-> AsU32(as_secs(elapsed)), millis |-> subsec_millis(elapsed)]

\* denominator == 0.0
DenominatorIsZero(d) == d.secs = <<>> /\ d.millis = 0

\* f64::from(self.sum) / denominator, unevaluated
Quotient(num, den) == [num |-> num, den |-> den]

throughput_ResetsOnlyOnSome(self, elapsed, now) ==
    LET denominator == Denominator(elapsed)
    IN  IF DenominatorIsZero(denominator) THEN [self |-> self, ret |-> None]
        ELSE [self |-> reset(self, now), ret |-> Some(Quotient(self.sum, denominator))]

\* Throughput::throughput given the answer of self.initial_time.elapsed()
\* and the instant T::now() returns inside reset()
throughput(self, elapsed, now) ==
    LET denominator == Denominator(elapsed)
        rate == IF DenominatorIsZero(denominator) THEN None
                ELSE Some(Quotient(self.sum, denominator))
    IN  [self |-> reset(self, now), ret |-> rate]

\* the sequential program right after Throughput::new()
NoCall == [op |-> "new", arg |-> <<>>, elapsed |-> Duration(<<>>, 0), ret |-> None,
           before |-> new(1), window |-> <<>>, panic |-> FALSE]

InitCounter ==
    /\ tp = new(1)
    /\ pc = "running"
    /\ window = <<>>
    /\ discarded = <<>>
    /\ last = NoCall

----------------------------------------------------------------------------
(* ThroughputSynchronized<T> and tokio_async::ThroughputAsyncSynchronized<T> *)

Threads == 1..NThreads
NoOwner == 0

\* the answers of T::elapsed() of the test doubles ZeroTimeFakeInstant and FakeInstant
TestElapsed == {Duration(<<>>, 0), Duration(NatOfInt(10), 0)}

\* the arguments the threads pass to report()
WrapperValues == {NatOfInt(1), U32Max}

Unit == <<"()">>
Panic == <<"panic">>
Pending == <<"pending">>

\* ThroughputSynchronized::new(): a std::sync::Mutex around Throughput::new()
ThroughputSynchronized_new(now) ==
    [kind |-> "std", tp_unsynchronized |-> new(now), locked |-> NoOwner, poisoned |-> FALSE,
     waiters |-> <<>>]

\* ThroughputAsyncSynchronized::new(): a tokio::sync::Mutex, which has no
\* poison flag (the field stays FALSE) and hands the lock over in the order
\* of its queue of waiters
ThroughputAsyncSynchronized_new(now) ==
    [kind |-> "tokio", tp_unsynchronized |-> new(now), locked |-> NoOwner, poisoned |-> FALSE,
     waiters |-> <<>>]

LockAvailable_NoExclusion(self) == TRUE

\* lock() / lock().await can take the mutex
LockAvailable(self) == self.locked = NoOwner

LockFails_IgnoresPoison(self) == FALSE

\* lock().unwrap() panics: std's lock() returns Err(PoisonError) on a
\* poisoned mutex; tokio's lock().await always yields the guard
LockFails(self) == self.kind = "std" /\ self.poisoned

DropGuard_NeverReleases(self, panicking) ==
    [self EXCEPT !.poisoned = self.poisoned \/ (self.kind = "std" /\ panicking)]

\* the guard is dropped, at the end of the statement or while unwinding:
\* std marks the mutex poisoned when the holder is panicking
DropGuard(self, panicking) ==
    [self EXCEPT !.locked = NoOwner,
                 !.poisoned = self.poisoned \/ (self.kind = "std" /\ panicking)]

\* one whole call of the wrapper's report by a caller that is alone
WrapperReport(self, value, checks) ==
    IF LockFails(self) THEN [self |-> self, ret |-> Panic]
    ELSE LET r == report(self.tp_unsynchronized, value, checks)
         IN  [self |-> DropGuard([self EXCEPT !.tp_unsynchronized = r.self], r.panic),
              ret |-> IF r.panic THEN Panic ELSE Unit]

WrapperReset_NoPoisonCheck(self, now) ==
    [self |-> DropGuard([self EXCEPT !.tp_unsynchronized = reset(self.tp_unsynchronized, now)], FALSE),
     ret |-> Unit]

\* one whole call of the wrapper's reset by a caller that is alone
WrapperReset(self, now) ==
    IF LockFails(self) THEN [self |-> self, ret |-> Panic]
    ELSE [self |-> DropGuard([self EXCEPT !.tp_unsynchronized = reset(self.tp_unsynchronized, now)], FALSE),
          ret |-> Unit]

\* one whole call of the wrapper's throughput by a caller that is alone
WrapperThroughput(self, elapsed, now) ==
    IF LockFails(self) THEN [self |-> self, ret |-> Panic]
    ELSE LET r == throughput(self.tp_unsynchronized, elapsed, now)
         IN  [self |-> DropGuard([self EXCEPT !.tp_unsynchronized = r.self], FALSE),
              ret |-> r.ret]

----------------------------------------------------------------------------
(* Threads (tasks) calling one shared wrapper *)

IdleThread == [pc |-> "idle", op |-> "none", arg |-> <<>>, elapsed |-> Duration(<<>>, 0),
               seen |-> <<>>, ret |-> Pending, linRet |-> Pending, err |-> "none",
               calls |-> 0, barrier |-> FALSE]

NoAccount == [reported |-> <<>>, consumed |-> <<>>, resetCalled |-> FALSE, overflowed |-> FALSE]

InitWrapperIdle ==
    /\ w = ThroughputSynchronized_new(1)
    /\ th = [t \in Threads |-> IdleThread]
    /\ lin = new(1)
    /\ acct = NoAccount

InitPairIdle ==
    pair = [sync |-> ThroughputSynchronized_new(1), async |-> ThroughputAsyncSynchronized_new(1),
            op |-> "new", syncRet |-> Pending, asyncRet |-> Pending, calls |-> 0,
            poisonedBefore |-> FALSE]

InitWrapper ==
    /\ overflow_checks \in BOOLEAN
    /\ nowCount = 1
    /\ InitCounter
    /\ w \in {ThroughputSynchronized_new(1), ThroughputAsyncSynchronized_new(1)}
    /\ th = [t \in Threads |-> IdleThread]
    /\ lin = new(1)
    /\ acct = NoAccount
    /\ InitPairIdle

\* every other thread has made exactly one call, a report, and it has returned
AllOthersReportedOnce(t) ==
    \A u \in Threads \ {t} :
        th[u].pc = "idle" /\ th[u].calls = 1 /\ th[u].op = "report" /\ th[u].ret = Unit

\* the number of wrapper calls the threads 1..n have made
RECURSIVE CallsMade(_)
CallsMade(n) == IF n = 0 THEN 0 ELSE th[n].calls + CallsMade(n - 1)

\* thread t calls report(arg), reset() or throughput() on the wrapper
Invoke(t, op, arg) ==
    /\ th[t].pc = "idle"
    /\ CallsMade(NThreads) < MaxCalls
    /\ th' = [th EXCEPT ![t] = [IdleThread EXCEPT !.pc = "lock", !.op = op, !.arg = arg,
                                                  !.calls = th[t].calls + 1,
                                                  !.barrier = AllOthersReportedOnce(t)]]
    /\ acct' = [acct EXCEPT !.resetCalled = acct.resetCalled \/ op = "reset"]
    /\ UNCHANGED <<overflow_checks, nowCount, seqVars, w, lin, pair>>

\* lock().unwrap() / lock().await: t takes the mutex once it is available; on a
\* poisoned std mutex unwrap() panics and the guard inside the error is dropped
Lock(t) ==
    /\ th[t].pc = "lock"
    /\ LockAvailable(w)
    /\ IF LockFails(w)
       THEN /\ th' = [th EXCEPT ![t].pc = "panicked", ![t].err = "poison", ![t].ret = Panic]
            /\ w' = w
       ELSE /\ th' = [th EXCEPT ![t].pc = CASE th[t].op = "report" -> "load"
                                            [] th[t].op = "reset" -> "reset"
                                            [] OTHER -> "read"]
            /\ w' = [w EXCEPT !.locked = t]
    /\ UNCHANGED <<overflow_checks, nowCount, seqVars, lin, acct, pair>>

\* report: self.sum += value reads self.sum ...
Load(t) ==
    /\ th[t].pc = "load"
    /\ th' = [th EXCEPT ![t].pc = "store", ![t].seen = w.tp_unsynchronized.sum]
    /\ UNCHANGED <<overflow_checks, nowCount, seqVars, w, lin, acct, pair>>

\* ... and stores the sum, or panics on overflow, which drops the guard while unwinding
Store(t) ==
    /\ th[t].pc = "store"
    /\ LET r == report([w.tp_unsynchronized EXCEPT !.sum = th[t].seen], th[t].arg, overflow_checks)
           l == report(lin, th[t].arg, overflow_checks)
       IN  /\ IF r.panic
              THEN /\ w' = DropGuard(w, TRUE)
                   /\ th' = [th EXCEPT ![t].pc = "panicked", ![t].err = "overflow", ![t].ret = Panic,
                                       ![t].linRet = IF l.panic THEN Panic ELSE Unit]
              ELSE /\ w' = [w EXCEPT !.tp_unsynchronized.sum = r.self.sum]
                   /\ th' = [th EXCEPT ![t].pc = "unlock", ![t].ret = Unit,
                                       ![t].linRet = IF l.panic THEN Panic ELSE Unit]
           /\ lin' = l.self
    /\ acct' = [acct EXCEPT !.overflowed = acct.overflowed \/ ~FitsU32(NatAdd(th[t].seen, th[t].arg))]
    /\ UNCHANGED <<overflow_checks, nowCount, seqVars, pair>>

\* throughput: reads the elapsed time and the sum and computes the rate ...
Read(t, elapsed) ==
    /\ th[t].pc = "read"
    /\ th' = [th EXCEPT ![t].pc = "reset", ![t].elapsed = elapsed,
                        ![t].seen = w.tp_unsynchronized.sum,
                        ![t].ret = throughput(w.tp_unsynchronized, elapsed, nowCount).ret]
    /\ UNCHANGED <<overflow_checks, nowCount, seqVars, w, lin, acct, pair>>

\* ... and resets; reset() itself is this step alone
ResetStep(t) ==
    /\ th[t].pc = "reset"
    /\ nowCount' = nowCount + 1
    /\ w' = [w EXCEPT !.tp_unsynchronized = reset(w.tp_unsynchronized, nowCount')]
    /\ IF th[t].op = "reset"
       THEN /\ lin' = reset(lin, nowCount')
            /\ th' = [th EXCEPT ![t].pc = "unlock", ![t].ret = Unit, ![t].linRet = Unit]
       ELSE LET l == throughput(lin, th[t].elapsed, nowCount')
            IN  /\ lin' = l.self
                /\ th' = [th EXCEPT ![t].pc = "unlock", ![t].linRet = l.ret]
    /\ UNCHANGED <<overflow_checks, seqVars, acct, pair>>

\* the guard is dropped at the end of the statement and the call returns
Unlock(t) ==
    /\ th[t].pc = "unlock"
    /\ w' = DropGuard(w, FALSE)
    /\ th' = [th EXCEPT ![t].pc = "idle", ![t].seen = <<>>, ![t].linRet = Pending,
                        ![t].elapsed = Duration(<<>>, 0)]
    /\ acct' = CASE th[t].op = "report" -> [acct EXCEPT !.reported = NatAdd(acct.reported, th[t].arg)]
                [] th[t].op = "throughput" -> [acct EXCEPT !.consumed = NatAdd(acct.consumed, th[t].seen)]
                [] OTHER -> acct
    /\ UNCHANGED <<overflow_checks, nowCount, seqVars, lin, pair>>

NextWrapper ==
    \/ \E t \in Threads, value \in WrapperValues : Invoke(t, "report", value)
    \/ \E t \in Threads : Invoke(t, "reset", <<>>)
    \/ \E t \in Threads : Invoke(t, "throughput", <<>>)
    \/ \E t \in Threads : Lock(t)
    \/ \E t \in Threads : Load(t)
    \/ \E t \in Threads : Store(t)
    \/ \E t \in Threads, elapsed \in TestElapsed : Read(t, elapsed)
    \/ \E t \in Threads : ResetStep(t)
    \/ \E t \in Threads : Unlock(t)

SpecWrapper == InitWrapper /\ [][NextWrapper]_vars

----------------------------------------------------------------------------
(* Threads (tasks) that keep calling one shared wrapper *)

ProgressThreads == 1..NProgress

\* the argument of the endless reports: it keeps sum, and the state space, bounded
ProgressValues == {<<>>}

\* the calls of T::now() still to come from the calls in progress of threads 1..n
RECURSIVE NowCallsAhead(_)
NowCallsAhead(n) ==
    IF n = 0 THEN 0
    ELSE (IF th[n].op \in {"reset", "throughput"} /\ th[n].pc \in {"lock", "read", "reset"}
          THEN 1 ELSE 0) + NowCallsAhead(n - 1)

\* thread t calls the wrapper again and joins those waiting for the lock
ProgressInvoke(t, op, arg) ==
    /\ th[t].pc = "idle"
    /\ op = "report" \/ nowCount + NowCallsAhead(NProgress) < MaxNow
    /\ th' = [th EXCEPT ![t] = [IdleThread EXCEPT !.pc = "lock", !.op = op, !.arg = arg]]
    /\ w' = [w EXCEPT !.waiters = Append(w.waiters, t)]
    /\ acct' = [acct EXCEPT !.resetCalled = acct.resetCalled \/ op = "reset"]
    /\ UNCHANGED <<overflow_checks, nowCount, seqVars, lin, pair>>

LockTurn_NoQueue(self, t) == TRUE

\* whose turn it is once the lock is available: std's mutex lets any waiter
\* (or a newcomer) take it, tokio's mutex serves its waiters first in, first out
LockTurn(self, t) == self.kind = "tokio" => Head(self.waiters) = t

\* the waiters without t
WithoutWaiter(waiters, t) == SelectSeq(waiters, LAMBDA u : u # t)

\* lock().unwrap() / lock().await of a waiting thread
ProgressLock(t) ==
    /\ th[t].pc = "lock"
    /\ LockAvailable(w)
    /\ LockTurn(w, t)
    /\ IF LockFails(w)
       THEN /\ th' = [th EXCEPT ![t].pc = "panicked", ![t].err = "poison", ![t].ret = Panic]
            /\ w' = [w EXCEPT !.waiters = WithoutWaiter(w.waiters, t)]
       ELSE /\ th' = [th EXCEPT ![t].pc = CASE th[t].op = "report" -> "load"
                                            [] th[t].op = "reset" -> "reset"
                                            [] OTHER -> "read"]
            /\ w' = [w EXCEPT !.locked = t, !.waiters = WithoutWaiter(w.waiters, t)]
    /\ UNCHANGED <<overflow_checks, nowCount, seqVars, lin, acct, pair>>

\* the steps thread t takes by itself once it has called the wrapper
ThreadStep(t) ==
    \/ ProgressLock(t)
    \/ Load(t)
    \/ Store(t)
    \/ \E elapsed \in TestElapsed : Read(t, elapsed)
    \/ ResetStep(t)
    \/ Unlock(t)

NextProgress ==
    \/ \E t \in ProgressThreads, value \in ProgressValues : ProgressInvoke(t, "report", value)
    \/ \E t \in ProgressThreads : ProgressInvoke(t, "reset", <<>>)
    \/ \E t \in ProgressThreads : ProgressInvoke(t, "throughput", <<>>)
    \/ \E t \in ProgressThreads : ProgressLock(t)
    \/ \E t \in ProgressThreads : Load(t)
    \/ \E t \in ProgressThreads : Store(t)
    \/ \E t \in ProgressThreads, elapsed \in TestElapsed : Read(t, elapsed)
    \/ \E t \in ProgressThreads : ResetStep(t)
    \/ \E t \in ProgressThreads : Unlock(t)

\* the scheduler runs every thread (task) that can take a step again and
\* again; neither mutex is assumed to favour a waiter beyond LockTurn
SpecProgress ==
    /\ InitWrapper
    /\ [][NextProgress]_vars
    /\ \A t \in ProgressThreads : WF_vars(ThreadStep(t))

----------------------------------------------------------------------------
(* One caller driving a blocking and an async wrapper with the same calls *)

InitPair ==
    /\ overflow_checks \in BOOLEAN
    /\ nowCount = 1
    /\ InitCounter
    /\ InitWrapperIdle
    /\ InitPairIdle

PairReport(value) ==
    /\ pair.calls < MaxPairCalls
    /\ LET s == WrapperReport(pair.sync, value, overflow_checks)
           a == WrapperReport(pair.async, value, overflow_checks)
       IN  pair' = [sync |-> s.self, async |-> a.self, op |-> "report",
                    syncRet |-> s.ret, asyncRet |-> a.ret, calls |-> pair.calls + 1,
                    poisonedBefore |-> pair.sync.poisoned]
    /\ UNCHANGED <<overflow_checks, nowCount, seqVars, wrapVars>>

PairReset ==
    /\ pair.calls < MaxPairCalls
    /\ nowCount' = nowCount + 1
    /\ LET s == WrapperReset(pair.sync, nowCount')
           a == WrapperReset(pair.async, nowCount')
       IN  pair' = [sync |-> s.self, async |-> a.self, op |-> "reset",
                    syncRet |-> s.ret, asyncRet |-> a.ret, calls |-> pair.calls + 1,
                    poisonedBefore |-> pair.sync.poisoned]
    /\ UNCHANGED <<overflow_checks, seqVars, wrapVars>>

PairThroughput(elapsed) ==
    /\ pair.calls < MaxPairCalls
    /\ nowCount' = nowCount + 1
    /\ LET s == WrapperThroughput(pair.sync, elapsed, nowCount')
           a == WrapperThroughput(pair.async, elapsed, nowCount')
       IN  pair' = [sync |-> s.self, async |-> a.self, op |-> "throughput",
                    syncRet |-> s.ret, asyncRet |-> a.ret, calls |-> pair.calls + 1,
                    poisonedBefore |-> pair.sync.poisoned]
    /\ UNCHANGED <<overflow_checks, seqVars, wrapVars>>

NextPair ==
    \/ \E value \in WrapperValues : PairReport(value)
    \/ PairReset
    \/ \E elapsed \in TestElapsed : PairThroughput(elapsed)

SpecPair == InitPair /\ [][NextPair]_vars

----------------------------------------------------------------------------
(* The sequential program: one owner calling the unsynchronized counter *)

Init ==
    /\ overflow_checks \in BOOLEAN
    /\ nowCount = 1
    /\ InitCounter
    /\ InitWrapperIdle
    /\ InitPairIdle

Report(value) ==
    /\ pc = "running"
    /\ Len(window) < MaxReports
    /\ LET r == report(tp, value, overflow_checks)
       IN  /\ tp' = r.self
           /\ pc' = IF r.panic THEN "panicked" ELSE "running"
           /\ window' = IF r.panic THEN window ELSE Append(window, value)
           /\ last' = [NoCall EXCEPT !.op = "report", !.arg = value, !.before = tp,
                                     !.window = window, !.panic = r.panic]
    /\ UNCHANGED <<overflow_checks, nowCount, discarded, w, th, lin, acct, pair>>

Reset ==
    /\ pc = "running"
    /\ nowCount < MaxNow
    /\ nowCount' = nowCount + 1
    /\ tp' = reset(tp, nowCount')
    /\ window' = <<>>
    /\ discarded' = tp.sum
    /\ last' = [NoCall EXCEPT !.op = "reset", !.before = tp, !.window = window]
    /\ UNCHANGED <<overflow_checks, pc, w, th, lin, acct, pair>>

ThroughputCall(elapsed) ==
    /\ pc = "running"
    /\ nowCount < MaxNow
    /\ nowCount' = nowCount + 1
    /\ LET r == throughput(tp, elapsed, nowCount')
       IN  /\ tp' = r.self
           /\ last' = [NoCall EXCEPT !.op = "throughput", !.elapsed = elapsed, !.ret = r.ret,
                                     !.before = tp, !.window = window]
    /\ window' = <<>>
    /\ discarded' = tp.sum
    /\ UNCHANGED <<overflow_checks, pc, w, th, lin, acct, pair>>

Next ==
    \/ \E value \in Values : Report(value)
    \/ Reset
    \/ \E elapsed \in Elapsed : ThroughputCall(elapsed)

Spec == Init /\ [][Next]_vars

\* The sequential program over time sources that answer a whole number of
\* seconds, as the test doubles FakeInstant and ZeroTimeFakeInstant do
ElapsedWholeSeconds == {d \in Elapsed : d.nanos = 0}

NextSeconds ==
    \/ \E value \in Values : Report(value)
    \/ Reset
    \/ \E elapsed \in ElapsedWholeSeconds : ThroughputCall(elapsed)

SpecSeconds == Init /\ [][NextSeconds]_vars

----------------------------------------------------------------------------
(* Properties of the unsynchronized counter *)

DurationPositive(d) == d.secs # <<>> \/ d.nanos > 0

\* q = total / E as real numbers: q.num / (q.den.secs + q.den.millis / 1000)
\* equals total / (E.secs + E.nanos / 1e9), compared by cross-multiplication
\* in nanoseconds
RateEquals(q, total, E) ==
    LET denNanos == NatAdd(NatMul(q.den.secs, NatOfInt(NanosPerSec)),
                           NatOfInt(q.den.millis * NanosPerMilli))
        ENanos == NatAdd(NatMul(E.secs, NatOfInt(NanosPerSec)), NatOfInt(E.nanos))
    IN  NatMul(q.num, ENanos) = NatMul(total, denNanos)

\* C1: after report(v1), ..., report(vn) and then throughput() with the time
\* source reporting an elapsed time E > 0, the result is Some(r) with
\* r = (v1 + ... + vn) / E.
C1_RateIsSumOverElapsed ==
    (last.op = "throughput" /\ DurationPositive(last.elapsed)) =>
        /\ is_some(last.ret)
        /\ RateEquals(unwrap(last.ret), NatSum(last.window), last.elapsed)

\* C4: after every throughput(), whether it returned Some or None, sum is 0
\* and initial_time is the instant of a T::now() call made by that very call,
\* so the counter equals a newly constructed one.
C4_ThroughputAlwaysResets ==
    last.op = "throughput" =>
        /\ tp.sum = <<>>
        /\ tp.initial_time = nowCount
        /\ tp.initial_time > last.before.initial_time
        /\ tp = new(nowCount)

C4_Witness ==
    /\ last.op = "throughput"
    /\ last.ret = None
    /\ last.before.sum # <<>>

\* C5: throughput() returns None whenever the elapsed time is under one
\* millisecond (zero included), whatever the sum.
SubMillisecond(d) == d.secs = <<>> /\ d.nanos < NanosPerMilli

C5_SubMillisecondIsNone ==
    (last.op = "throughput" /\ SubMillisecond(last.elapsed)) => last.ret = None

C5_Witness ==
    /\ last.op = "throughput"
    /\ SubMillisecond(last.elapsed)
    /\ last.elapsed.nanos > 0
    /\ last.before.sum = U32Max
    /\ last.ret = None

\* the counter a fresh instance becomes after the reports of a window
RECURSIVE FreshAfter(_, _)
FreshAfter(reports, checks) ==
    IF reports = <<>> THEN new(1)
    ELSE report(FreshAfter(SubSeq(reports, 1, Len(reports) - 1), checks),
                reports[Len(reports)], checks).self

\* C6: a throughput() that closes a window opened by reset() or throughput()
\* returns what a fresh counter returns after the reports of that window
\* alone: nothing of the earlier windows leaks in, and with no report in the
\* window the rate is computed from a sum of 0.
C6_NoLeakAcrossBoundary ==
    (last.op = "throughput" /\ last.before.initial_time > 1) =>
        /\ last.ret = throughput(FreshAfter(last.window, overflow_checks), last.elapsed, 1).ret
        /\ (last.window = <<>> /\ is_some(last.ret) => unwrap(last.ret).num = <<>>)

C6_Witness ==
    /\ last.op = "throughput"
    /\ last.before.initial_time > 1
    /\ is_some(last.ret)
    /\ last.window = <<NatOfInt(1)>>
    /\ unwrap(last.ret).num = NatOfInt(1)

\* C7: a report(value) never leaves sum smaller than it was before the call.
C7_SumOnlyIncreases ==
    last.op = "report" => ~NatLess(tp.sum, last.before.sum)

\* C10: every call on the unsynchronized counter completes normally.
C10_EveryCallCompletes ==
    pc = "running" /\ ~last.panic

\* the denominator C11 describes: all the whole seconds of the elapsed time
\* plus its whole milliseconds / 1000
WholeMillisDenominator(elapsed) ==
    [secs |-> elapsed.secs, millis |-> elapsed.nanos \div NanosPerMilli]

\* C11: throughput() divides sum by the elapsed whole seconds plus the
\* sub-second part truncated to whole milliseconds / 1000, so the part of the
\* elapsed time below the millisecond does not affect the result.
C11_DenominatorInWholeMillis ==
    last.op = "throughput" =>
        LET d == WholeMillisDenominator(last.elapsed)
        IN  last.ret = IF DenominatorIsZero(d) THEN None
                       ELSE Some(Quotient(last.before.sum, d))

\* C14: report(value) leaves initial_time as it was; reset() and throughput()
\* replace it by a new instant.
C14_ReportKeepsInitialTime ==
    /\ last.op = "report" => tp.initial_time = last.before.initial_time
    /\ last.op \in {"reset", "throughput"} =>
          (tp.initial_time = nowCount /\ tp.initial_time # last.before.initial_time)

C14_Witness ==
    /\ last.op = "report"
    /\ ~last.panic
    /\ last.before.initial_time > 1
    /\ tp.sum # last.before.sum
    /\ tp.initial_time = last.before.initial_time

\* C15: throughput() returns Some for every elapsed time of at least one
\* millisecond, also when the whole seconds do not fit in 32 bits.
C15_NoneOnlyUnderOneMillisecond ==
    (last.op = "throughput" /\ ~SubMillisecond(last.elapsed)) => is_some(last.ret)

----------------------------------------------------------------------------
(* Properties of the wrappers *)

\* the total of the values reported by the threads 1..n other than t
RECURSIVE ReportedByOthers(_, _)
ReportedByOthers(n, t) ==
    IF n = 0 THEN <<>>
    ELSE NatAdd(IF n = t THEN <<>> ELSE th[n].arg, ReportedByOthers(n - 1, t))

\* C2: when every other thread has called report(v_i) once and a throughput()
\* call starts only after all these reports have returned, that throughput()
\* computes its rate from a sum equal to v_1 + ... + v_N.
C2_NoLostUpdates ==
    \A t \in Threads :
        ( /\ w.kind = "std"
          /\ th[t].op = "throughput" /\ th[t].pc \in {"reset", "unlock"}
          /\ th[t].calls = 1 /\ th[t].barrier
          /\ AllOthersReportedOnce(t) )
        => th[t].seen = ReportedByOthers(NThreads, t)

\* C3: the calls on one wrapper are linearizable. The counter always equals
\* the unsynchronized counter that took every call in one step at a point
\* within the call, every call ends with the result that counter gave, and
\* the sum a throughput() read is still the sum when it resets.
C3_Linearizable ==
    /\ w.tp_unsynchronized = lin
    /\ \A t \in Threads :
        /\ (th[t].pc = "unlock" \/ th[t].err = "overflow") => th[t].ret = th[t].linRet
        /\ (th[t].pc = "reset" /\ th[t].op = "throughput") => th[t].seen = w.tp_unsynchronized.sum
        /\ th[t].pc = "store" => th[t].seen = w.tp_unsynchronized.sum

C3_Witness ==
    \E t, u \in Threads :
        /\ th[t].op = "throughput" /\ th[t].pc = "unlock"
        /\ is_some(th[t].ret) /\ unwrap(th[t].ret).num = U32Max
        /\ th[u].op = "report" /\ th[u].pc = "lock"

\* C8: once the lock of a ThroughputSynchronized is poisoned, the counter is
\* never read or modified again, and every call that gets to the lock panics
\* in its caller.
C8_PoisonPropagates ==
    [][(w.kind = "std" /\ w.poisoned) =>
         /\ w'.tp_unsynchronized = w.tp_unsynchronized
         /\ w'.poisoned
         /\ \A t \in Threads :
              /\ th'[t].pc \in {"idle", "lock", "panicked"}
              /\ (th[t].pc = "lock" /\ th'[t].pc # "lock") =>
                    (th'[t].pc = "panicked" /\ th'[t].ret = Panic)]_vars

C8_Witness ==
    /\ w.kind = "std" /\ w.poisoned
    /\ \E t, u \in Threads : th[t].err = "overflow" /\ th[u].err = "poison"

HoldsGuard(t) == th[t].pc \in {"load", "store", "read", "reset", "unlock"}

\* C12: at most one caller at a time is executing on the inner counter, it is
\* the one the lock is held by, and the lock is free whenever no call is in
\* progress on the wrapper.
C12_MutualExclusionAndRelease ==
    /\ \A t, u \in Threads : (HoldsGuard(t) /\ HoldsGuard(u)) => t = u
    /\ \A t \in Threads : HoldsGuard(t) <=> w.locked = t
    /\ (\A t \in Threads : th[t].pc = "idle") => w.locked = NoOwner

C12_Witness ==
    \E t, u, v \in Threads :
        /\ th[t].pc = "store" /\ w.locked = t
        /\ th[u].pc = "lock" /\ th[v].pc = "idle"
        /\ th[v].calls = 1 /\ th[v].op = "throughput"

\* the values of the reports among threads 1..n that have stored and not yet returned
RECURSIVE ReportedNotReturned(_)
ReportedNotReturned(n) ==
    IF n = 0 THEN <<>>
    ELSE NatAdd(IF th[n].pc = "unlock" /\ th[n].op = "report" THEN th[n].arg ELSE <<>>,
                ReportedNotReturned(n - 1))

\* the sums consumed by the throughputs among threads 1..n that have reset and not yet returned
RECURSIVE ConsumedNotReturned(_)
ConsumedNotReturned(n) ==
    IF n = 0 THEN <<>>
    ELSE NatAdd(IF th[n].pc = "unlock" /\ th[n].op = "throughput" THEN th[n].seen ELSE <<>>,
                ConsumedNotReturned(n - 1))

\* C16: with no reset() call and no overflow, every reported unit is counted
\* in exactly one window: the total of the values of the returned reports
\* equals the total of the sums consumed by the returned throughputs plus the
\* current sum. A call that has taken effect under the lock and has not
\* returned yet is counted on its side, so the equation is stated in every
\* state; with the lock free it is the equation of the claim.
C16_UnitsConserved ==
    (~acct.resetCalled /\ ~acct.overflowed) =>
        NatAdd(acct.reported, ReportedNotReturned(NThreads))
          = NatAdd(NatAdd(acct.consumed, ConsumedNotReturned(NThreads)), w.tp_unsynchronized.sum)

C16_Witness ==
    /\ ~acct.resetCalled /\ ~acct.overflowed
    /\ w.locked = NoOwner
    /\ acct.reported = Pow2_32
    /\ acct.consumed = NatOfInt(1)
    /\ w.tp_unsynchronized.sum = U32Max

\* C13 as stated: every call invoked on a wrapper eventually acquires the
\* lock and returns, however the other callers keep invoking operations.
C13_EveryCallReturns ==
    \A t \in ProgressThreads : (th[t].pc = "lock") ~> (th[t].pc = "idle")

\* some thread can take a step whenever a call is in progress
NoDeadlock ==
    (\E t \in ProgressThreads : th[t].pc # "idle") =>
        \E t \in ProgressThreads : ENABLED ThreadStep(t)

\* C13 amended: no deadlock is reachable, every call that has acquired the
\* lock returns, whenever calls are waiting one of them acquires the lock,
\* and on the async wrapper every waiting call acquires the lock and returns.
C13_ProgressUnderLock ==
    /\ []NoDeadlock
    /\ \A t \in ProgressThreads : HoldsGuard(t) ~> (th[t].pc = "idle")
    /\ (\E t \in ProgressThreads : th[t].pc = "lock") ~> (\E t \in ProgressThreads : HoldsGuard(t))
    /\ \A t \in ProgressThreads : (w.kind = "tokio" /\ th[t].pc = "lock") ~> (th[t].pc = "idle")

C13_Witness ==
    \E t, u \in ProgressThreads :
        /\ w.kind = "tokio"
        /\ th[t].pc = "lock" /\ w.waiters = <<t>>
        /\ th[u].pc = "unlock" /\ w.locked = u /\ th[u].op = "throughput"

====
